---------------------------- MODULE Spec2Model ----------------------------
(***************************************************************************)
(* Model of src/main.py: the Streamlit chat script of Tibb 1.0.            *)
(*                                                                         *)
(* One behaviour is one browser session.  The script is executed from top  *)
(* to bottom once per pass; st.session_state survives from pass to pass,   *)
(* every other name of the script is rebuilt by each pass.  A pass ends    *)
(* by reaching the end of the script, by st.stop(), or by an exception     *)
(* nobody catches.                                                         *)
(*                                                                         *)
(* A text is a sequence of tokens.  The two brace characters are tokens of *)
(* their own; every other token is a brace-free piece of text.             *)
(***************************************************************************)
EXTENDS Integers, Sequences, FiniteSets, TLC

\* ------------------------------------------------------------------ bounds
MaxTurns == 2          \* submissions in one session
MaxMatches == 2        \* matches one vector query returns
MaxTextLen == 2        \* tokens in one passage text

\* --------------------------------------------------------------- constants
TopK == 5

None == <<"None">>

Greeting ==
  <<"Hello Impeccabillem Warrior, I'm your CoMUI Pharmacology MB2 Assistant. How can I assist you today?">>

Placeholder == <<"No additional information found.">>

PromptHead ==
  "\nYour name is CoMUI MB-2 Pharmacology Chatbot. You are a Professor specializing in Pharmacology in CoMUI. Answer questions very very elaborately and accurately. Use the following information to answer the user's question:\n\n"

PromptTail ==
  "\n\nProvide very brief accurate and helpful health response based on the provided information and your expertise.\n"

system_prompt_template == <<PromptHead, "{", "doc_content", "}", PromptTail>>

PineconeKeyMissing == "Pinecone API key is missing. Please set it in your .env file."
GoogleKeyMissing == "Google API key is missing. Please set it in your .env file."

\* ------------------------------------------------------ values of the inputs
Alphabet == {"a", "{", "}"}

RECURSIVE TextsOfLen(_)
TextsOfLen(n) ==
  IF n = 0 THEN {<<>>}
  ELSE {Append(t, c) : t \in TextsOfLen(n - 1), c \in Alphabet}

PassageTexts == UNION {TextsOfLen(n) : n \in 0..MaxTextLen}

Metadatas == {[source |-> "pharm"]} \cup {[source |-> "pharm", text |-> t] : t \in PassageTexts}

Matches == [metadata : Metadatas]

Min(a, b) == IF a < b THEN a ELSE b

MatchLists(top_k) == UNION {[1..n -> Matches] : n \in 0..Min(MaxMatches, top_k)}

Questions == {<<"q1">>, <<"q2">>}
Responses == {<<"a1">>, <<>>}
KeyValues == {None, <<>>, <<"key">>}

\* ------------------------------------------------------ Python's primitives
\* bool(x) of a str-or-None value
Truthy(x) == x # None /\ x # <<>>

\* sep.join(texts)
RECURSIVE Join(_, _)
Join(texts, sep) ==
  IF Len(texts) = 0 THEN <<>>
  ELSE IF Len(texts) = 1 THEN texts[1]
  ELSE texts[1] \o sep \o Join(Tail(texts), sep)

\* s.replace(old, new), old a single character
RECURSIVE Replace(_, _, _)
Replace(s, old, new) ==
  IF Len(s) = 0 THEN <<>>
  ELSE (IF Head(s) = old THEN new ELSE <<Head(s)>>) \o Replace(Tail(s), old, new)

\* index of the '}' that closes the replacement field whose body starts at j
RECURSIVE FieldEnd(_, _, _)
FieldEnd(s, j, depth) ==
  IF j > Len(s) THEN 0
  ELSE IF s[j] = "{" THEN FieldEnd(s, j + 1, depth + 1)
  ELSE IF s[j] = "}" THEN (IF depth = 1 THEN j ELSE FieldEnd(s, j + 1, depth - 1))
  ELSE FieldEnd(s, j + 1, depth)

\* string.Formatter: text - the formatted string, fields - the field names
\* met, err - the call raises (single brace, unknown or unnamed field)
RECURSIVE VFormat(_, _, _)
VFormat(s, i, kwargs) ==
  IF i > Len(s) THEN [text |-> <<>>, fields |-> <<>>, err |-> FALSE]
  ELSE IF s[i] = "{" THEN
    IF i < Len(s) /\ s[i + 1] = "{" THEN
      LET r == VFormat(s, i + 2, kwargs)
      IN  [r EXCEPT !.text = <<"{">> \o @]
    ELSE
      LET j == FieldEnd(s, i + 1, 1)
      IN  IF j = 0 THEN [text |-> <<>>, fields |-> <<>>, err |-> TRUE]
          ELSE
            LET name == SubSeq(s, i + 1, j - 1)
                r == VFormat(s, j + 1, kwargs)
                known == Len(name) = 1 /\ name[1] \in DOMAIN kwargs
            IN  [text |-> (IF known THEN kwargs[name[1]] ELSE <<>>) \o r.text,
                 fields |-> <<name>> \o r.fields,
                 err |-> r.err \/ ~known]
  ELSE IF s[i] = "}" THEN
    IF i < Len(s) /\ s[i + 1] = "}" THEN
      LET r == VFormat(s, i + 2, kwargs)
      IN  [r EXCEPT !.text = <<"}">> \o @]
    ELSE [text |-> <<>>, fields |-> <<>>, err |-> TRUE]
  ELSE
    LET r == VFormat(s, i + 1, kwargs)
    IN  [r EXCEPT !.text = <<s[i]>> \o @]

Format(template, kwargs) == VFormat(template, 1, kwargs)


\* ------------------------------------------------------------------- state
VARIABLES
  PINECONE_API_KEY,   \* os.getenv("PINECONE_API_KEY")
  GOOGLE_API_KEY,     \* os.getenv("GOOGLE_API_KEY")
  pc,                 \* position of the running pass in the script
  session_state,      \* st.session_state: key -> value
  clients,            \* pc, pinecone_index and embed_model exist in this pass
  widget_value,       \* what the front end submitted through the chat input
  user_input,         \* the script's user_input
  widgets,            \* input widgets this pass has put on the page
  errors,             \* texts this pass has shown with st.error
  query_embed,        \* generate_response: query_embed
  results,            \* generate_response: results
  doc_contents,       \* generate_response: doc_contents
  doc_content,        \* generate_response: doc_content
  formatted_prompt,   \* generate_response: formatted_prompt
  response,           \* the script's response
  calls,              \* external calls this pass has issued, in order
  submitted,          \* history variable: the questions submitted so far
  failed              \* history variable: submissions ended by an exception

vars == <<PINECONE_API_KEY, GOOGLE_API_KEY, pc, session_state, clients,
          widget_value, user_input, widgets, errors, query_embed, results,
          doc_contents, doc_content, formatted_prompt, response, calls,
          submitted, failed>>

env == <<PINECONE_API_KEY, GOOGLE_API_KEY>>
locals == <<query_embed, results, doc_contents, doc_content, formatted_prompt>>
ghosts == <<submitted, failed>>

NoSession == [k \in {} |-> None]

Has(key) == key \in DOMAIN session_state

\* st.session_state[key] = value
SetItem(state, key, value) ==
  [k \in DOMAIN state \cup {key} |-> IF k = key THEN value ELSE state[k]]

\* st.session_state.chat_history, the empty list while the key is not set
History == IF Has("chat_history") THEN session_state["chat_history"] ELSE <<>>

\* --------------------------------------------------- generate_response, pure
\* the vector the embedding service returns for a question
Embedding(question) == <<"embedding-001">> \o question

ExtractDocContents(res) ==
  [i \in 1..Len(res.matches) |->
     IF "text" \in DOMAIN res.matches[i].metadata
     THEN res.matches[i].metadata.text
     ELSE <<>>]

\* mutant: only the opening brace is doubled
EscapeBraces_OpenOnly(s) == Replace(s, "{", <<"{", "{">>)

EscapeBraces(s) == Replace(Replace(s, "{", <<"{", "{">>), "}", <<"}", "}">>)

\* mutant: the placeholder stands in whenever the joined text is empty
JoinDocContents_EmptyJoin(contents) ==
  IF Len(Join(contents, <<"\n">>)) > 0
  THEN EscapeBraces(Join(contents, <<"\n">>))
  ELSE Placeholder

JoinDocContents(contents) ==
  IF Len(contents) > 0
  THEN EscapeBraces(Join(contents, <<"\n">>))
  ELSE Placeholder

FormatSystemPrompt(content) ==
  Format(system_prompt_template, [doc_content |-> content]).text

\* ChatMessageHistory rebuilt from the session's list
RECURSIVE RebuildChatHistory(_)
RebuildChatHistory(h) ==
  IF Len(h) = 0 THEN <<>>
  ELSE (IF Head(h).role = "user"
          THEN <<[type |-> "human", content |-> Head(h).content]>>
        ELSE IF Head(h).role = "assistant"
          THEN <<[type |-> "ai", content |-> Head(h).content]>>
        ELSE <<>>) \o RebuildChatHistory(Tail(h))

\* ChatPromptTemplate(system, MessagesPlaceholder, "{question}") formatted
\* with the chain's inputs
PromptMessages(prompt, h, question) ==
  LET inputs == [question |-> question]
      sys == Format(prompt, inputs)
      human == Format(<<"{", "question", "}">>, inputs)
  IN  [err |-> sys.err \/ human.err,
       messages |-> <<[type |-> "system", content |-> sys.text]>>
                    \o RebuildChatHistory(h)
                    \o <<[type |-> "human", content |-> human.text]>>]

\* -------------------------------------------------------------------- Init
Init ==
  /\ PINECONE_API_KEY \in KeyValues
  /\ GOOGLE_API_KEY \in KeyValues
  /\ pc = "check_pinecone_key"
  /\ session_state = NoSession
  /\ clients = FALSE
  /\ widget_value = None
  /\ user_input = None
  /\ widgets = {}
  /\ errors = {}
  /\ query_embed = None
  /\ results = [matches |-> <<>>]
  /\ doc_contents = <<>>
  /\ doc_content = None
  /\ formatted_prompt = None
  /\ response = None
  /\ calls = <<>>
  /\ submitted = <<>>
  /\ failed = 0

\* ----------------------------------------------------------------- actions
\* lines 24-26
CheckPineconeKey ==
  /\ pc = "check_pinecone_key"
  /\ IF ~Truthy(PINECONE_API_KEY)
     THEN /\ errors' = errors \cup {PineconeKeyMissing}
          /\ pc' = "stopped"
     ELSE /\ pc' = "check_google_key"
          /\ UNCHANGED errors
  /\ UNCHANGED <<env, session_state, clients, widget_value, user_input,
                 widgets, locals, response, calls, ghosts>>

\* mutant: the error is shown but the script goes on
CheckGoogleKey_NoStop ==
  /\ pc = "check_google_key"
  /\ errors' = IF ~Truthy(GOOGLE_API_KEY)
               THEN errors \cup {GoogleKeyMissing}
               ELSE errors
  /\ pc' = "init_clients"
  /\ UNCHANGED <<env, session_state, clients, widget_value, user_input,
                 widgets, locals, response, calls, ghosts>>

\* lines 27-29
CheckGoogleKey ==
  /\ pc = "check_google_key"
  /\ IF ~Truthy(GOOGLE_API_KEY)
     THEN /\ errors' = errors \cup {GoogleKeyMissing}
          /\ pc' = "stopped"
     ELSE /\ pc' = "init_clients"
          /\ UNCHANGED errors
  /\ UNCHANGED <<env, session_state, clients, widget_value, user_input,
                 widgets, locals, response, calls, ghosts>>

\* lines 32-34
InitClients ==
  /\ pc = "init_clients"
  /\ clients' = TRUE
  /\ pc' = "init_chat_history"
  /\ UNCHANGED <<env, session_state, widget_value, user_input, widgets,
                 errors, locals, response, calls, ghosts>>

\* mutant: the history is set to the greeting by every pass
InitChatHistory_Always ==
  /\ pc = "init_chat_history"
  /\ session_state' =
       SetItem(session_state, "chat_history",
               <<[role |-> "assistant", content |-> Greeting]>>)
  /\ pc' = "chat_input"
  /\ UNCHANGED <<env, clients, widget_value, user_input, widgets, errors,
                 locals, response, calls, ghosts>>

\* lines 144-147
InitChatHistory ==
  /\ pc = "init_chat_history"
  /\ session_state' =
       IF ~Has("chat_history")
       THEN SetItem(session_state, "chat_history",
                    <<[role |-> "assistant", content |-> Greeting]>>)
       ELSE session_state
  /\ pc' = "chat_input"
  /\ UNCHANGED <<env, clients, widget_value, user_input, widgets, errors,
                 locals, response, calls, ghosts>>

\* lines 155-156
ChatInput ==
  /\ pc = "chat_input"
  /\ widgets' = widgets \cup {"chat_input"}
  /\ user_input' = widget_value
  /\ widget_value' = None
  /\ pc' = IF Truthy(widget_value) THEN "append_user" ELSE "init_dark_mode"
  /\ UNCHANGED <<env, session_state, clients, errors, locals, response,
                 calls, ghosts>>

\* lines 157-159
AppendUser ==
  /\ pc = "append_user"
  /\ session_state' =
       [session_state EXCEPT !["chat_history"] =
          Append(@, [role |-> "user", content |-> user_input])]
  /\ pc' = "embed_query"
  /\ UNCHANGED <<env, clients, widget_value, user_input, widgets, errors,
                 locals, response, calls, ghosts>>

\* an exception leaves generate_response and the script: the pass is over
Raised ==
  /\ pc' = "raised"
  /\ failed' = failed + 1
  /\ UNCHANGED <<env, session_state, clients, widget_value, user_input,
                 widgets, errors, locals, response, submitted>>

\* mutant: a failed embedding call is replaced by a substitute vector
EmbedQuery_Fallback ==
  /\ pc = "embed_query"
  /\ \E ok \in BOOLEAN :
       /\ calls' = Append(calls, [api |-> "embed_query", text |-> user_input,
                                  ok |-> ok])
       /\ query_embed' = IF ok THEN Embedding(user_input) ELSE <<"zeros">>
       /\ pc' = "pinecone_query"
       /\ UNCHANGED <<env, session_state, clients, widget_value, user_input,
                      widgets, errors, results, doc_contents, doc_content,
                      formatted_prompt, response, ghosts>>

\* lines 52-53
EmbedQuery ==
  /\ pc = "embed_query"
  /\ \E ok \in BOOLEAN :
       /\ calls' = Append(calls, [api |-> "embed_query", text |-> user_input,
                                  ok |-> ok])
       /\ IF ok
          THEN /\ query_embed' = Embedding(user_input)
               /\ pc' = "pinecone_query"
               /\ UNCHANGED <<env, session_state, clients, widget_value,
                              user_input, widgets, errors, results,
                              doc_contents, doc_content, formatted_prompt,
                              response, ghosts>>
          ELSE Raised

\* mutant: a failed vector query is issued a second time
PineconeQuery_Retry ==
  /\ pc = "pinecone_query"
  /\ \E ok \in BOOLEAN :
       /\ calls' = Append(calls, [api |-> "query", vector |-> query_embed,
                                  top_k |-> TopK, ok |-> ok])
       /\ IF ok
          THEN /\ \E m \in MatchLists(TopK) : results' = [matches |-> m]
               /\ pc' = "build_prompt"
               /\ UNCHANGED <<env, session_state, clients, widget_value,
                              user_input, widgets, errors, query_embed,
                              doc_contents, doc_content, formatted_prompt,
                              response, ghosts>>
          ELSE IF Len(calls) < 2
          THEN /\ pc' = "pinecone_query"
               /\ UNCHANGED <<env, session_state, clients, widget_value,
                              user_input, widgets, errors, locals, response,
                              ghosts>>
          ELSE Raised

\* lines 56-61
PineconeQuery ==
  /\ pc = "pinecone_query"
  /\ \E ok \in BOOLEAN :
       /\ calls' = Append(calls, [api |-> "query", vector |-> query_embed,
                                  top_k |-> TopK, ok |-> ok])
       /\ IF ok
          THEN /\ \E m \in MatchLists(TopK) : results' = [matches |-> m]
               /\ pc' = "build_prompt"
               /\ UNCHANGED <<env, session_state, clients, widget_value,
                              user_input, widgets, errors, query_embed,
                              doc_contents, doc_content, formatted_prompt,
                              response, ghosts>>
          ELSE Raised

\* lines 63-100
BuildPrompt ==
  /\ pc = "build_prompt"
  /\ doc_contents' = ExtractDocContents(results)
  /\ doc_content' = JoinDocContents(doc_contents')
  /\ formatted_prompt' = FormatSystemPrompt(doc_content')
  /\ pc' = "invoke_chain"
  /\ UNCHANGED <<env, session_state, clients, widget_value, user_input,
                 widgets, errors, query_embed, results, response, calls,
                 ghosts>>

\* lines 102-120 and the assignment of line 162
InvokeChain ==
  /\ pc = "invoke_chain"
  /\ LET p == PromptMessages(formatted_prompt, History, user_input)
     IN  IF p.err
         THEN Raised /\ UNCHANGED calls
         ELSE \E ok \in BOOLEAN :
                /\ calls' = Append(calls, [api |-> "generate",
                                           messages |-> p.messages,
                                           ok |-> ok])
                /\ IF ok
                   THEN /\ \E text \in Responses : response' = text
                        /\ pc' = "append_assistant"
                        /\ UNCHANGED <<env, session_state, clients,
                                       widget_value, user_input, widgets,
                                       errors, locals, ghosts>>
                   ELSE Raised

\* lines 164-166
AppendAssistant ==
  /\ pc = "append_assistant"
  /\ session_state' =
       [session_state EXCEPT !["chat_history"] =
          Append(@, [role |-> "assistant", content |-> response])]
  /\ pc' = "init_dark_mode"
  /\ UNCHANGED <<env, clients, widget_value, user_input, widgets, errors,
                 locals, response, calls, ghosts>>

\* lines 173-174
InitDarkMode ==
  /\ pc = "init_dark_mode"
  /\ session_state' =
       IF ~Has("dark_mode")
       THEN SetItem(session_state, "dark_mode", FALSE)
       ELSE session_state
  /\ pc' = "second_append"
  /\ UNCHANGED <<env, clients, widget_value, user_input, widgets, errors,
                 locals, response, calls, ghosts>>

\* mutant: the block works on the reply of line 162
SecondAppendBlock_Live ==
  /\ pc = "second_append"
  /\ session_state' =
       IF Truthy(response)
       THEN [session_state EXCEPT !["chat_history"] =
               Append(@, [role |-> "assistant", content |-> response,
                          timestamp |-> "now"])]
       ELSE session_state
  /\ pc' = "done"
  /\ UNCHANGED <<env, clients, widget_value, user_input, widgets, errors,
                 locals, response, calls, ghosts>>

\* lines 577-594
SecondAppendBlock ==
  /\ pc = "second_append"
  /\ response' = None
  /\ session_state' =
       IF Truthy(response')
       THEN [session_state EXCEPT !["chat_history"] =
               Append(@, [role |-> "assistant", content |-> response',
                          timestamp |-> "now"])]
       ELSE session_state
  /\ pc' = "done"
  /\ UNCHANGED <<env, clients, widget_value, user_input, widgets, errors,
                 locals, calls, ghosts>>

PassOver == pc \in {"done", "stopped", "raised"}

\* a new pass starts: the script's own names are gone, the session stays
NewPass(value) ==
  /\ pc' = "check_pinecone_key"
  /\ widget_value' = value
  /\ clients' = FALSE
  /\ user_input' = None
  /\ widgets' = {}
  /\ errors' = {}
  /\ query_embed' = None
  /\ results' = [matches |-> <<>>]
  /\ doc_contents' = <<>>
  /\ doc_content' = None
  /\ formatted_prompt' = None
  /\ response' = None
  /\ calls' = <<>>
  /\ UNCHANGED <<env, session_state>>

\* the user sends a question through the chat input of the page
Submit ==
  /\ PassOver
  /\ "chat_input" \in widgets
  /\ Len(submitted) < MaxTurns
  /\ \E q \in Questions :
       /\ NewPass(q)
       /\ submitted' = Append(submitted, q)
  /\ UNCHANGED failed

\* the front end asks for a pass without a submission
Rerun ==
  /\ PassOver
  /\ NewPass(None)
  /\ UNCHANGED ghosts

Next ==
  \/ CheckPineconeKey
  \/ CheckGoogleKey
  \/ InitClients
  \/ InitChatHistory
  \/ ChatInput
  \/ AppendUser
  \/ EmbedQuery
  \/ PineconeQuery
  \/ BuildPrompt
  \/ InvokeChain
  \/ AppendAssistant
  \/ InitDarkMode
  \/ SecondAppendBlock
  \/ Submit
  \/ Rerun

Spec == Init /\ [][Next]_vars

\* ------------------------------------------------------------------ helpers
IsPrefix(a, b) == Len(a) <= Len(b) /\ SubSeq(b, 1, Len(a)) = a

Last(s) == s[Len(s)]

\* the pass is between taking a submission and storing its reply
Processing ==
  pc \in {"append_user", "embed_query", "pinecone_query", "build_prompt",
          "invoke_chain", "append_assistant"}

\* the pass that took a submission is over
SubmissionOver == pc \in {"done", "raised"} /\ Truthy(user_input)

\* ------------------------------------------------------------------ claims

\* C1: once a submission has been processed, with or without an exception in
\* the embedding, query or generation call, the last entry of the history is
\* an assistant entry.
C1_LastEntryIsAssistant ==
  SubmissionOver => Last(History).role = "assistant"

\* C2: after N turns that all succeeded the history is the greeting followed
\* by N pairs (user entry, assistant entry) in the order of submission, 2N+1
\* entries in all.
C2_HistoryAfterSuccessfulTurns ==
  (pc = "done" /\ failed = 0) =>
    /\ Len(History) = 2 * Len(submitted) + 1
    /\ History[1].role = "assistant"
    /\ History[1].content = Greeting
    /\ \A i \in 1..Len(submitted) :
         /\ History[2 * i].role = "user"
         /\ History[2 * i].content = submitted[i]
         /\ History[2 * i + 1].role = "assistant"
         /\ History[2 * i + 1].content \in Responses

C2_TwoSuccessfulTurns ==
  /\ pc = "done"
  /\ failed = 0
  /\ Len(submitted) = 2
  /\ Len(History) = 5

\* C3: the messages handed to the generation API are one system message, the
\* turns H that precede the question, and the question as only final user
\* message: |H| + 2 messages.
C3_MessageSequence ==
  (pc = "append_assistant") =>
    LET H == SubSeq(History, 1, Len(History) - 1)
        m == Last(calls).messages
    IN  /\ Len(m) = Len(H) + 2
        /\ m[1].type = "system"
        /\ SubSeq(m, 2, Len(m)) =
             RebuildChatHistory(H) \o <<[type |-> "human", content |-> user_input]>>

\* C4: the history only grows at its end: every step leaves the old history
\* a prefix of the new one.
C4_AppendOnly == [][IsPrefix(History, History')]_vars

C4_UserEntryKeptOnFailure ==
  /\ pc = "raised"
  /\ Len(calls) = 3
  /\ ~Last(calls).ok
  /\ Len(History) = 4
  /\ Last(History) = [role |-> "user", content |-> user_input]

\* C5: while a submission is being processed a boolean in-progress flag of
\* the session is set.
C5_InProgressFlagSet ==
  Processing =>
    \E k \in DOMAIN session_state \ {"chat_history"} : session_state[k] = TRUE

\* C6: with either API key absent from the environment the script shows an
\* error and stops: no client, no history, no input read, no external call.
C6_MissingKeyHalts ==
  (PINECONE_API_KEY = None \/ GOOGLE_API_KEY = None) =>
    /\ pc \in {"check_pinecone_key", "check_google_key", "stopped"}
    /\ pc = "stopped" => errors # {}
    /\ clients = FALSE
    /\ ~Has("chat_history")
    /\ "chat_input" \notin widgets
    /\ user_input = None
    /\ calls = <<>>

C6_StoppedOnMissingGoogleKey ==
  /\ pc = "stopped"
  /\ Truthy(PINECONE_API_KEY)
  /\ GOOGLE_API_KEY = None
  /\ errors = {GoogleKeyMissing}

\* C7: the page offers a reset action ('Clear Chat').
C7_ResetActionOffered ==
  pc = "done" => "Clear Chat" \in widgets

\* e is s with every brace written twice
RECURSIVE Doubled(_, _)
Doubled(e, s) ==
  IF Len(s) = 0 THEN Len(e) = 0
  ELSE IF Head(s) \in {"{", "}"}
    THEN /\ Len(e) >= 2
         /\ e[1] = Head(s)
         /\ e[2] = Head(s)
         /\ Doubled(SubSeq(e, 3, Len(e)), Tail(s))
  ELSE /\ Len(e) >= 1
       /\ e[1] = Head(s)
       /\ Doubled(Tail(e), Tail(s))

\* C8: for a non-empty list of passages the text put into the system prompt
\* is the newline-joined passages with every brace doubled, and reading the
\* prompt as a template finds no placeholder and no single brace in it.
C8_BracesEscaped ==
  (formatted_prompt # None /\ Len(doc_contents) > 0) =>
    LET parsed == Format(formatted_prompt, [question |-> user_input])
    IN  /\ Doubled(doc_content, Join(doc_contents, <<"\n">>))
        /\ formatted_prompt = <<PromptHead>> \o doc_content \o <<PromptTail>>
        /\ ~parsed.err
        /\ parsed.fields = <<>>

C8_PassagesWithBraces ==
  /\ pc = "invoke_chain"
  /\ doc_contents = << <<"{", "a">>, <<"}">> >>

\* the text of a match, '' for a match without one
TextOf(match) ==
  IF "text" \in DOMAIN match.metadata THEN match.metadata.text ELSE <<>>

RECURSIVE NewlineJoined(_)
NewlineJoined(ms) ==
  IF Len(ms) = 0 THEN <<>>
  ELSE IF Len(ms) = 1 THEN TextOf(ms[1])
  ELSE NewlineJoined(SubSeq(ms, 1, Len(ms) - 1)) \o <<"\n">> \o TextOf(Last(ms))

\* C9: with no match the system prompt holds the placeholder; with matches it
\* holds their texts joined by newlines in the order returned, the empty
\* string standing for a match without text, and not the placeholder.
C9_PlaceholderOrPassages ==
  \A i \in 1..Len(calls) :
    calls[i].api = "generate" =>
      LET system == calls[i].messages[1]
          ms == results.matches
      IN  /\ system.type = "system"
          /\ Len(ms) = 0 =>
               /\ doc_content = Placeholder
               /\ system.content = <<PromptHead>> \o Placeholder \o <<PromptTail>>
          /\ Len(ms) > 0 =>
               /\ doc_content # Placeholder
               /\ system.content =
                    <<PromptHead>> \o NewlineJoined(ms) \o <<PromptTail>>

C9_MatchWithoutText ==
  /\ Len(calls) = 3
  /\ Len(results.matches) = 2
  /\ "text" \notin DOMAIN results.matches[1].metadata
  /\ TextOf(results.matches[2]) = <<"a">>

CallsTo(api) == {i \in 1..Len(calls) : calls[i].api = api}

\* C11: a submission issues at most one embedding call, one vector query and
\* one generation call; a failed call is the last call of its pass, and a
\* pass that took no submission issues no call at all.
C11_NoRetries ==
  /\ \A api \in {"embed_query", "query", "generate"} :
       Cardinality(CallsTo(api)) <= 1
  /\ \A i \in 1..Len(calls) : ~calls[i].ok => i = Len(calls)
  /\ ~Truthy(user_input) => calls = <<>>

C11_QueryFailedOnce ==
  /\ pc = "raised"
  /\ Len(calls) = 2
  /\ calls[2].api = "query"
  /\ ~calls[2].ok

=============================================================================
